---- MODULE Spec2Model ----
(***************************************************************************)
(* A model of telegram_news_bot.js: the RSS aggregation loop               *)
(* (fetchRSSFeeds), the item normalisation it applies, the sort by         *)
(* publication date, and main's sequencing of processWithAI and            *)
(* sendToTelegram.                                                         *)
(*                                                                         *)
(* JavaScript values are tagged records.  A JavaScript string is a         *)
(* sequence of one-character strings, so that the tag-stripping regular    *)
(* expression, substring and Date parsing are computed character by        *)
(* character.                                                              *)
(***************************************************************************)
EXTENDS Integers, Sequences, FiniteSets, Bags, TLC

VARIABLES
    rssFeeds,          \* CONFIG.rssFeeds paired with what each URL answers in this run
    pc,                \* position of main / fetchRSSFeeds
    feedIdx,           \* index of the next feedUrl of the for-of loop
    allItems,          \* fetchRSSFeeds' accumulator, then main's newsData
    caught,            \* per feed handled: did its catch block run, and how many items it pushed
    aiCalls,           \* number of invocations of processWithAI
    aiArg,             \* the argument of the last processWithAI call
    aiFailed,          \* an error was raised inside processWithAI's try block
    processedMessage,  \* main's processedMessage
    tgCalls,           \* number of invocations of sendToTelegram
    tgArg,             \* the argument of the last sendToTelegram call
    tgFailed,          \* an error was raised inside sendToTelegram's try block
    exitCode,          \* "running", or the status the process ended with
    node,              \* the normaliser alone: the raw item/entry node
    normalized         \* the normaliser alone: what the map callback made of it

vars == <<rssFeeds, pc, feedIdx, allItems, caught, aiCalls, aiArg, aiFailed,
          processedMessage, tgCalls, tgArg, tgFailed, exitCode, node, normalized>>

-----------------------------------------------------------------------------
(* Bounds of the model.                                                    *)

MaxFeeds == 3          \* longest CONFIG.rssFeeds explored
MaxTagLen == 2         \* longest text put before and after the padding of a content string
PadShort == 117        \* a padding that brings a content string close to the cut
PadLong == 124         \* a padding that brings a content string past the cut
BigFeedLen == 22       \* item count of the large feed document

-----------------------------------------------------------------------------
(* JavaScript values as the XML parser and the code produce them.          *)

Undef == [t |-> "undef"]
Str(s) == [t |-> "str", s |-> s]
Num(n) == [t |-> "num", n |-> n]
Obj(f) == [t |-> "obj", f |-> f]
Arr(a) == [t |-> "arr", a |-> a]
\* String.prototype.link, what `item.link` is when item is a string
StringProtoLink == [t |-> "fn"]

IsString(v) == v.t = "str"

\* ToBoolean, as || applies it
Truthy(v) ==
    CASE v.t = "undef" -> FALSE
      [] v.t = "str" -> v.s # <<>>
      [] v.t = "num" -> v.n # 0
      [] OTHER -> TRUE

\* a || b
Or(a, b) == IF Truthy(a) THEN a ELSE b

\* v?.[p] ; v.p is the same on every v that is not undefined
Get(v, p) ==
    CASE v.t = "obj" -> IF p \in DOMAIN v.f THEN v.f[p] ELSE Undef
      [] v.t = "str" -> IF p = "link" THEN StringProtoLink ELSE Undef
      [] v.t = "fn" -> IF p = "name" THEN Str(<<"l", "i", "n", "k">>) ELSE Undef
      [] OTHER -> Undef

\* Array.isArray
IsArray(v) == v.t = "arr"

-----------------------------------------------------------------------------
(* Strings.                                                                *)

\* s.substring(0, n)
Substring0(s, n) == SubSeq(s, 1, IF Len(s) < n THEN Len(s) ELSE n)

\* the least element of a non-empty set of indices
Least(S) == CHOOSE x \in S : \A y \in S : x <= y

\* the indices at or after i where /<[^>]*>/ matches: a "<" that a ">" follows
MatchStarts(s, i) ==
    {j \in i..Len(s) : s[j] = "<" /\ \E k \in (j + 1)..Len(s) : s[k] = ">"}

\* where the match that starts at j ends: [^>]* stops at the first ">"
MatchEnd(s, j) == Least({k \in (j + 1)..Len(s) : s[k] = ">"})

\* s.replace(/<[^>]*>/g, '') from index i on: the text up to the leftmost match is
\* kept, the match is dropped, and the search resumes behind it
RECURSIVE StripFrom(_, _)
StripFrom(s, i) ==
    IF MatchStarts(s, i) = {} THEN SubSeq(s, i, Len(s))
    ELSE SubSeq(s, i, Least(MatchStarts(s, i)) - 1)
           \o StripFrom(s, MatchEnd(s, Least(MatchStarts(s, i))) + 1)

StripTags(s) == StripFrom(s, 1)

SnippetLen == 120

\* the cut made before the tags are removed
SnippetCutFirst(s) == StripTags(Substring0(s, SnippetLen))

\* (content).replace(/<[^>]*>/g, '').substring(0, 120)
Snippet(s) == Substring0(StripTags(s), SnippetLen)

-----------------------------------------------------------------------------
(* Dates: new Date(v) as a time value.  A time value is kept as a day      *)
(* number since the epoch and the milliseconds within the day.             *)

MsPerDay == 86400000

NaN == [valid |-> FALSE, day |-> 0, ms |-> 0]
Time(d, m) == [valid |-> TRUE, day |-> d, ms |-> m]

Digits == {"0", "1", "2", "3", "4", "5", "6", "7", "8", "9"}

DigitVal(c) ==
    CASE c = "0" -> 0 [] c = "1" -> 1 [] c = "2" -> 2 [] c = "3" -> 3 [] c = "4" -> 4
      [] c = "5" -> 5 [] c = "6" -> 6 [] c = "7" -> 7 [] c = "8" -> 8 [] c = "9" -> 9

AllDigits(s, a, b) == \A i \in a..b : s[i] \in Digits

RECURSIVE NumberAt(_, _, _)
NumberAt(s, a, b) ==
    IF a > b THEN 0 ELSE NumberAt(s, a, b - 1) * 10 + DigitVal(s[b])

IsLeap(y) == (y % 4 = 0 /\ y % 100 # 0) \/ y % 400 = 0

DaysInMonth(y, m) ==
    IF m = 2 THEN (IF IsLeap(y) THEN 29 ELSE 28)
    ELSE IF m \in {4, 6, 9, 11} THEN 30 ELSE 31

\* days from 1970-01-01 to y-m-d
DayNumber(y, m, d) ==
    LET yy == IF m <= 2 THEN y - 1 ELSE y
        era == yy \div 400
        yoe == yy - era * 400
        mp == IF m > 2 THEN m - 3 ELSE m + 9
        doy == (153 * mp + 2) \div 5 + d - 1
        doe == yoe * 365 + yoe \div 4 - yoe \div 100 + doy
    IN  era * 146097 + doe - 719468

DateShapeOk(s) ==
    /\ Len(s) >= 10
    /\ AllDigits(s, 1, 4) /\ s[5] = "-" /\ AllDigits(s, 6, 7) /\ s[8] = "-"
    /\ AllDigits(s, 9, 10)
    /\ NumberAt(s, 6, 7) \in 1..12
    /\ NumberAt(s, 9, 10) \in 1..DaysInMonth(NumberAt(s, 1, 4), NumberAt(s, 6, 7))

TimeShapeOk(s) ==
    /\ Len(s) \in {20, 24}
    /\ s[11] = "T" /\ AllDigits(s, 12, 13) /\ s[14] = ":" /\ AllDigits(s, 15, 16)
    /\ s[17] = ":" /\ AllDigits(s, 18, 19)
    /\ NumberAt(s, 12, 13) <= 23 /\ NumberAt(s, 15, 16) <= 59 /\ NumberAt(s, 18, 19) <= 59
    /\ IF Len(s) = 20 THEN s[20] = "Z"
       ELSE s[20] = "." /\ AllDigits(s, 21, 23) /\ s[24] = "Z"

\* Date.parse on the ISO forms YYYY-MM-DD, YYYY-MM-DDTHH:mm:ssZ and
\* YYYY-MM-DDTHH:mm:ss.sssZ; every other string of the model is one no
\* JavaScript engine parses
ParseDate(s) ==
    IF ~DateShapeOk(s) THEN NaN
    ELSE LET day == DayNumber(NumberAt(s, 1, 4), NumberAt(s, 6, 7), NumberAt(s, 9, 10))
         IN  IF Len(s) = 10 THEN Time(day, 0)
             ELSE IF ~TimeShapeOk(s) THEN NaN
             ELSE Time(day,
                       ((NumberAt(s, 12, 13) * 60 + NumberAt(s, 15, 16)) * 60
                            + NumberAt(s, 18, 19)) * 1000
                         + (IF Len(s) = 24 THEN NumberAt(s, 21, 23) ELSE 0))

\* new Date(v).getTime()
NewDate(v) ==
    CASE v.t = "str" -> ParseDate(v.s)
      [] v.t = "num" -> Time(v.n \div MsPerDay, v.n % MsPerDay)
      [] OTHER -> NaN

\* new Date().toISOString() at the one clock reading of the run
NowISO == <<"2", "0", "2", "6", "-", "1", "1", "-", "0", "5", "T",
            "1", "2", ":", "0", "0", ":", "0", "0", ".", "0", "0", "0", "Z">>

-----------------------------------------------------------------------------
(* httpsRequest: the promise settles from the transport and the status.    *)

Resolved(data) == [rejected |-> FALSE, data |-> data]
Rejected == [rejected |-> TRUE, data |-> Undef]

httpsRequest(resp) ==
    IF resp.transportError THEN Rejected
    ELSE IF resp.statusCode >= 200 /\ resp.statusCode < 300 THEN Resolved(resp.body)
    ELSE Rejected

-----------------------------------------------------------------------------
(* The body of the for-of loop of fetchRSSFeeds.                           *)

Thrown == [threw |-> TRUE, value |-> Undef]
Returned(v) == [threw |-> FALSE, value |-> v]

\* parser.parse(xmlData): the body of a response carries what the parser makes of it
ParserParse(body) == IF body.malformed THEN Thrown ELSE Returned(body.parsed)

\* the items extraction, `let items = []; if (...) ... else if (...) ...`
ExtractItems(parsed) ==
    LET item == Get(Get(Get(parsed, "rss"), "channel"), "item")
        entry == Get(Get(parsed, "feed"), "entry")
    IN  IF Truthy(item) THEN (IF IsArray(item) THEN item.a ELSE <<item>>)
        ELSE IF Truthy(entry) THEN (IF IsArray(entry) THEN entry.a ELSE <<entry>>)
        ELSE <<>>

NoTitle == Str(<<"N", "o", " ", "t", "i", "t", "l", "e">>)
Unknown == Str(<<"U", "n", "k", "n", "o", "w", "n">>)
EmptyString == Str(<<>>)

\* item.description || item.summary || ''
ItemContent(item) == Or(Or(Get(item, "description"), Get(item, "summary")), EmptyString)

\* the callback of items.map: .replace is called on the content, which throws a
\* TypeError on anything that is not a string
NormalizeItem(item) ==
    IF ~IsString(ItemContent(item)) THEN Thrown
    ELSE Returned([
        title |-> Or(Or(Get(item, "title"), Get(Get(item, "title"), "#text")), NoTitle),
        link |-> Or(Or(Get(item, "link"), Get(Get(item, "link"), "@_href")), EmptyString),
        pubDate |-> Or(Or(Get(item, "pubDate"), Get(item, "published")), Str(NowISO)),
        content |-> ItemContent(item),
        contentSnippet |-> Str(Snippet(ItemContent(item).s)),
        creator |-> Or(Or(Get(item, "dc:creator"), Get(Get(item, "author"), "name")),
                       Unknown)])

\* items.map(item => ...): the first callback that throws ends the map
NormalizeAll(items) ==
    IF \E i \in 1..Len(items) : NormalizeItem(items[i]).threw THEN Thrown
    ELSE Returned([i \in 1..Len(items) |-> NormalizeItem(items[i]).value])

\* the try block for one feedUrl: the items pushed, or the catch block ran
TryFeed(resp) ==
    LET xmlData == httpsRequest(resp)
    IN  IF xmlData.rejected THEN Thrown
        ELSE IF ParserParse(xmlData.data).threw THEN Thrown
        ELSE NormalizeAll(ExtractItems(ParserParse(xmlData.data).value))

-----------------------------------------------------------------------------
(* allItems.sort((a, b) => new Date(b.pubDate) - new Date(a.pubDate))      *)

\* the sign of tb - ta, or NaN
Minus(tb, ta) ==
    IF ~tb.valid \/ ~ta.valid THEN [nan |-> TRUE, sign |-> 0]
    ELSE [nan |-> FALSE,
          sign |-> IF tb.day # ta.day THEN (IF tb.day > ta.day THEN 1 ELSE -1)
                   ELSE IF tb.ms # ta.ms THEN (IF tb.ms > ta.ms THEN 1 ELSE -1)
                   ELSE 0]

\* (a, b) => new Date(b.pubDate) - new Date(a.pubDate)
CompareFn(a, b) == Minus(NewDate(b.pubDate), NewDate(a.pubDate))

\* SortCompare of Array.prototype.sort: a NaN from the comparator counts as +0
SortCompare(a, b) == IF CompareFn(a, b).nan THEN 0 ELSE CompareFn(a, b).sign

\* the comparator is a consistent comparator for the values of s: the relations
\* "sorts before", "sorts equal" and "sorts after" it induces are transitive
ConsistentComparator(s) ==
    \A V \in {{s[i] : i \in 1..Len(s)}} :
      \A c \in {[a \in V |-> [b \in V |-> SortCompare(a, b)]]} :
        \A x, y, z \in V :
          /\ (c[x][y] = 0 /\ c[y][z] = 0) => c[x][z] = 0
          /\ (c[x][y] < 0 /\ c[y][z] < 0) => c[x][z] < 0
          /\ (c[x][y] > 0 /\ c[y][z] > 0) => c[x][z] > 0
          /\ (c[x][y] = 0) = (c[y][x] = 0)
          /\ (c[x][y] < 0) = (c[y][x] > 0)

\* x placed behind every element that does not sort after it
RECURSIVE InsertStable(_, _)
InsertStable(sorted, x) ==
    IF sorted = <<>> THEN <<x>>
    ELSE IF SortCompare(sorted[Len(sorted)], x) <= 0 THEN Append(sorted, x)
    ELSE Append(InsertStable(SubSeq(sorted, 1, Len(sorted) - 1), x), sorted[Len(sorted)])

\* the stable sort the language requires of a consistent comparator
RECURSIVE StableSort(_)
StableSort(s) ==
    IF s = <<>> THEN <<>>
    ELSE InsertStable(StableSort(SubSeq(s, 1, Len(s) - 1)), s[Len(s)])

RECURSIVE Orderings(_)
Orderings(S) ==
    IF S = {} THEN {<<>>}
    ELSE UNION {{<<x>> \o p : p \in Orderings(S \ {x})} : x \in S}

\* what sort may leave in the array: the stably sorted sequence under a consistent
\* comparator, and otherwise an order of the same elements that the engine chooses
SortOutcomes(s) ==
    IF ConsistentComparator(s) THEN {StableSort(s)}
    ELSE {[i \in 1..Len(s) |-> s[p[i]]] : p \in Orderings(1..Len(s))}

-----------------------------------------------------------------------------
(* The feeds a run may meet: what the parser makes of a document.          *)

DigitChars == <<"0", "1", "2", "3", "4", "5", "6", "7", "8", "9">>

\* 2024-01-0d
Jan2024(d) == Str(<<"2", "0", "2", "4", "-", "0", "1", "-", "0", DigitChars[d + 1]>>)

\* <item> with a title, a link, a date, a description with markup and a dc:creator
ItemA ==
    Obj([title |-> Str(<<"A">>), link |-> Str(<<"u", "a">>), pubDate |-> Jan2024(2),
         description |-> Str(<<"<", "b", ">", "H", "i", "<", "/", "b", ">">>)]
        @@ ("dc:creator" :> Str(<<"A", "n", "n">>)))

\* <item> with a title and an older date only
ItemB == Obj([title |-> Str(<<"B">>), pubDate |-> Jan2024(1)])

\* <item> of another feed carrying the date of ItemA
ItemC == Obj([title |-> Str(<<"C">>), link |-> Str(<<"u", "c">>), pubDate |-> Jan2024(2)])

\* <entry><link href="x"/><author><name>Bob</name></author><published>..</published></entry>
EntryBob ==
    Obj([link |-> Obj("@_href" :> Str(<<"x">>)),
         author |-> Obj([name |-> Str(<<"B", "o", "b">>)]),
         published |-> Str(<<"2", "0", "2", "4", "-", "0", "1", "-", "0", "3", "T",
                             "1", "0", ":", "0", "0", ":", "0", "0", "Z">>),
         summary |-> Str(<<"s">>)])

\* <entry><title type="html">T</title></entry>: no date, the title an object
EntryHtmlTitle ==
    Obj([title |-> Obj(("#text" :> Str(<<"T">>)) @@ ("@_type" :> Str(<<"h">>)))])

\* <item> whose pubDate is not a date
ItemSoon == Obj([title |-> Str(<<"S">>), pubDate |-> Str(<<"s", "o", "o", "n">>)])

\* <item><description type="html">d</description></item>: the description an object
ItemObjDesc ==
    Obj([title |-> Str(<<"O">>), pubDate |-> Jan2024(1),
         description |-> Obj(("#text" :> Str(<<"d">>)) @@ ("@_type" :> Str(<<"h">>)))])

\* <item><description>7</description></item>: the parser turns the text into a number
ItemNumDesc == Obj([title |-> Str(<<"N">>), pubDate |-> Jan2024(1), description |-> Num(7)])

\* the i-th <item> of the large document
BigItem(i) ==
    Obj([title |-> Str(<<"n", DigitChars[(i \div 10) + 1], DigitChars[(i % 10) + 1]>>),
         pubDate |-> Jan2024(4 + (i % 3))])

RssDoc(item) == Obj([rss |-> Obj([channel |-> Obj([title |-> Str(<<"c">>), item |-> item])])])
FeedDoc(entry) == Obj([feed |-> Obj([entry |-> entry])])

\* a channel without items
EmptyRss == Obj([rss |-> Obj([channel |-> Obj([title |-> Str(<<"c">>)])])])

\* parsed documents whose items all carry a date that parses
CleanDocs ==
    { EmptyRss,
      RssDoc(Arr(<<ItemA, ItemB>>)),
      RssDoc(ItemC),
      RssDoc(Str(<<>>)),                       \* <item/> alone: the empty string
      RssDoc(Arr(<<ItemA, ItemObjDesc>>)),
      RssDoc(ItemNumDesc),
      FeedDoc(EntryBob),
      FeedDoc(Arr(<<EntryHtmlTitle, Str(<<>>)>>)) }   \* no dates: the clock's date

\* parsed documents with an item whose date does not parse
OtherDocs == { RssDoc(ItemSoon) }

BigDoc == RssDoc(Arr([i \in 1..BigFeedLen |-> BigItem(i)]))

Ok200(parsed) ==
    [transportError |-> FALSE, statusCode |-> 200,
     body |-> [malformed |-> FALSE, parsed |-> parsed]]

\* responses that end in the catch block before any item is read
FailingResponses ==
    { [transportError |-> TRUE, statusCode |-> 0, body |-> [malformed |-> TRUE, parsed |-> Undef]],
      [transportError |-> FALSE, statusCode |-> 500,
       body |-> [malformed |-> FALSE, parsed |-> EmptyRss]],
      [transportError |-> FALSE, statusCode |-> 200, body |-> [malformed |-> TRUE, parsed |-> Undef]] }

SmallResponses == FailingResponses \cup {Ok200(d) : d \in CleanDocs \cup OtherDocs}

CleanResponses == FailingResponses \cup {Ok200(d) : d \in CleanDocs}

RECURSIVE SeqsUpTo(_, _)
SeqsUpTo(S, n) ==
    IF n = 0 THEN {<<>>}
    ELSE SeqsUpTo(S, n - 1)
           \cup {Append(q, x) : q \in {r \in SeqsUpTo(S, n - 1) : Len(r) = n - 1}, x \in S}

\* the configurations explored: up to MaxFeeds feeds answering with small documents,
\* and the large document beside up to one feed whose dates parse
FeedConfigs ==
    SeqsUpTo(SmallResponses, MaxFeeds)
      \cup {<<Ok200(BigDoc)>>}
      \cup {<<Ok200(BigDoc), r>> : r \in CleanResponses}
      \cup {<<r, Ok200(BigDoc)>> : r \in CleanResponses}

-----------------------------------------------------------------------------
(* processWithAI and sendToTelegram.                                       *)

\* JSON.parse(response)
JSONParse(body) == IF body.malformed THEN Thrown ELSE Returned(body.parsed)

\* data.choices[0].message.content: reading a property of undefined throws
ChoiceContent(data) ==
    LET choices == Get(data, "choices")
        first == IF IsArray(choices) /\ Len(choices.a) > 0 THEN choices.a[1] ELSE Undef
        message == Get(first, "message")
    IN  IF data.t = "undef" \/ choices.t = "undef" \/ first.t = "undef"
           \/ message.t = "undef"
        THEN Thrown
        ELSE Returned(Get(message, "content"))

\* the try block of processWithAI, from the response to its request
AITry(resp) ==
    LET response == httpsRequest(resp)
    IN  IF response.rejected THEN Thrown
        ELSE IF JSONParse(response.data).threw THEN Thrown
        ELSE ChoiceContent(JSONParse(response.data).value)

\* a catch block that logs and falls off the end of the function
AICatchSwallow == Returned(Undef)

\* the catch block of processWithAI: log, then `throw error`
AICatch == Thrown

processWithAI(resp) == IF AITry(resp).threw THEN AICatch ELSE AITry(resp)

\* the try block of sendToTelegram, from the response to its request
TelegramTry(resp) ==
    LET response == httpsRequest(resp)
    IN  IF response.rejected THEN Thrown ELSE JSONParse(response.data)

\* the catch block of sendToTelegram: log, then `throw error`
TelegramCatch == Thrown

sendToTelegram(resp) == IF TelegramTry(resp).threw THEN TelegramCatch ELSE TelegramTry(resp)

Completion(text) ==
    Obj([choices |-> Arr(<<Obj([message |-> Obj([content |-> Str(text)])])>>)])

\* what api.openai.com may answer
AIResponses ==
    { [transportError |-> TRUE, statusCode |-> 0, body |-> [malformed |-> TRUE, parsed |-> Undef]],
      [transportError |-> FALSE, statusCode |-> 401,
       body |-> [malformed |-> FALSE, parsed |-> Obj([error |-> Str(<<"k">>)])]],
      [transportError |-> FALSE, statusCode |-> 200, body |-> [malformed |-> TRUE, parsed |-> Undef]],
      [transportError |-> FALSE, statusCode |-> 200,
       body |-> [malformed |-> FALSE, parsed |-> Obj([error |-> Str(<<"q">>)])]],
      [transportError |-> FALSE, statusCode |-> 200,
       body |-> [malformed |-> FALSE,
                 parsed |-> Obj([choices |-> Arr(<<Obj([message |-> Obj([role |-> Str(<<"a">>)])])>>)])]],
      [transportError |-> FALSE, statusCode |-> 200,
       body |-> [malformed |-> FALSE, parsed |-> Completion(<<"m", "1">>)]],
      [transportError |-> FALSE, statusCode |-> 200,
       body |-> [malformed |-> FALSE, parsed |-> Completion(<<"m", "2">>)]] }

\* what api.telegram.org may answer
TelegramResponses ==
    { [transportError |-> TRUE, statusCode |-> 0, body |-> [malformed |-> TRUE, parsed |-> Undef]],
      [transportError |-> FALSE, statusCode |-> 400,
       body |-> [malformed |-> FALSE, parsed |-> Obj([ok |-> Num(0)])]],
      [transportError |-> FALSE, statusCode |-> 200, body |-> [malformed |-> TRUE, parsed |-> Undef]],
      [transportError |-> FALSE, statusCode |-> 200,
       body |-> [malformed |-> FALSE, parsed |-> Obj([ok |-> Num(1)])]] }

-----------------------------------------------------------------------------
(* main.                                                                   *)

TopCount == 20

\* the whole array passed on
TopItemsAll(newsData) == newsData

\* newsData.slice(0, 20)
TopItems(newsData) == SubSeq(newsData, 1, IF Len(newsData) < TopCount THEN Len(newsData) ELSE TopCount)

\* a length test that no array passes
NoNewsNever(newsData) == Len(newsData) < 0

\* newsData.length === 0
NoNews(newsData) == Len(newsData) = 0

\* the status process.exit is called with in main's catch block
MainCatchStatus == 1

Idle == Returned(Undef)

Init ==
    /\ rssFeeds \in FeedConfigs
    /\ pc = "start"
    /\ feedIdx = 1
    /\ allItems = <<>>
    /\ caught = <<>>
    /\ aiCalls = 0
    /\ aiArg = <<>>
    /\ aiFailed = FALSE
    /\ processedMessage = Undef
    /\ tgCalls = 0
    /\ tgArg = Undef
    /\ tgFailed = FALSE
    /\ exitCode = 0
    /\ node = Undef
    /\ normalized = Idle

\* main runs up to its first await: fetchRSSFeeds issues the first request, or, with
\* no feed configured, sorts the empty array and returns
Start ==
    /\ pc = "start"
    /\ IF Len(rssFeeds) = 0
       THEN /\ allItems' \in SortOutcomes(allItems)
            /\ pc' = "resume"
       ELSE /\ pc' = "fetch"
            /\ UNCHANGED allItems
    /\ UNCHANGED <<rssFeeds, feedIdx, caught, aiCalls, aiArg, aiFailed, processedMessage,
                   tgCalls, tgArg, tgFailed, exitCode, node, normalized>>

\* the request for feed feedIdx settles: the rest of the try block or the catch block
\* runs, then the next request goes out, or after the last feed the array is sorted
\* and returned
FeedResponse ==
    /\ pc = "fetch"
    /\ LET r == TryFeed(rssFeeds[feedIdx])
           pushed == IF r.threw THEN allItems ELSE allItems \o r.value
       IN  /\ caught' = Append(caught, [threw |-> r.threw,
                                        count |-> IF r.threw THEN 0 ELSE Len(r.value)])
           /\ IF feedIdx < Len(rssFeeds)
              THEN /\ allItems' = pushed
                   /\ feedIdx' = feedIdx + 1
                   /\ pc' = "fetch"
              ELSE /\ allItems' \in SortOutcomes(pushed)
                   /\ feedIdx' = feedIdx + 1
                   /\ pc' = "resume"
    /\ UNCHANGED <<rssFeeds, aiCalls, aiArg, aiFailed, processedMessage, tgCalls, tgArg,
                   tgFailed, exitCode, node, normalized>>

\* main resumes with newsData: it returns on an empty array, else calls processWithAI
\* with the first 20 items
MainResume ==
    /\ pc = "resume"
    /\ IF NoNews(allItems)
       THEN /\ pc' = "done"
            /\ UNCHANGED <<aiCalls, aiArg>>
       ELSE /\ aiCalls' = aiCalls + 1
            /\ aiArg' = TopItems(allItems)
            /\ pc' = "ai"
    /\ UNCHANGED <<rssFeeds, feedIdx, allItems, caught, aiFailed, processedMessage,
                   tgCalls, tgArg, tgFailed, exitCode, node, normalized>>

\* the OpenAI request settles: processWithAI returns the content and main calls
\* sendToTelegram with it, or processWithAI throws and main's catch block exits
AIResponse ==
    /\ pc = "ai"
    /\ \E resp \in AIResponses :
         /\ aiFailed' = AITry(resp).threw
         /\ IF processWithAI(resp).threw
            THEN /\ exitCode' = MainCatchStatus
                 /\ pc' = "done"
                 /\ UNCHANGED <<processedMessage, tgCalls, tgArg>>
            ELSE /\ processedMessage' = processWithAI(resp).value
                 /\ tgCalls' = tgCalls + 1
                 /\ tgArg' = processWithAI(resp).value
                 /\ pc' = "telegram"
                 /\ UNCHANGED exitCode
    /\ UNCHANGED <<rssFeeds, feedIdx, allItems, caught, aiCalls, aiArg, tgFailed, node,
                   normalized>>

\* the Telegram request settles: main completes, or sendToTelegram throws and main's
\* catch block exits
TelegramResponse ==
    /\ pc = "telegram"
    /\ \E resp \in TelegramResponses :
         /\ tgFailed' = TelegramTry(resp).threw
         /\ exitCode' = IF sendToTelegram(resp).threw THEN MainCatchStatus ELSE exitCode
    /\ pc' = "done"
    /\ UNCHANGED <<rssFeeds, feedIdx, allItems, caught, aiCalls, aiArg, aiFailed,
                   processedMessage, tgCalls, tgArg, node, normalized>>

Next == Start \/ FeedResponse \/ MainResume \/ AIResponse \/ TelegramResponse

Spec == Init /\ [][Next]_vars

\* the runs in which every pubDate a feed supplies parses as a date
InitDated ==
    /\ Init
    /\ rssFeeds \in SeqsUpTo(CleanResponses, MaxFeeds)

SpecDated == InitDated /\ [][Next]_vars

-----------------------------------------------------------------------------
(* The normaliser alone, over the shapes of node the parser can produce.   *)

Absent == Undef

\* an element with the given children; an Absent child is no property at all
Node(title, link, pubDate, published, description, summary, dcCreator, author) ==
    LET all == [title |-> title, link |-> link, pubDate |-> pubDate,
                published |-> published, description |-> description,
                summary |-> summary, author |-> author] @@ ("dc:creator" :> dcCreator)
    IN  Obj([k \in {x \in DOMAIN all : all[x] # Absent} |-> all[k]])

HtmlText(s) == Obj(("#text" :> Str(s)) @@ ("@_type" :> Str(<<"h">>)))

ShapeNodes ==
    { Node(title, link, pubDate, published, description, summary, dcCreator, author) :
        title \in {Absent, Str(<<"A">>), Str(<<>>), HtmlText(<<"T">>), Num(5)},
        link \in {Absent, Str(<<"u">>), Obj("@_href" :> Str(<<"x">>))},
        pubDate \in {Absent, Jan2024(2), Str(<<"s", "o", "o", "n">>), Num(2024)},
        published \in {Absent, Jan2024(3)},
        description \in {Absent, Str(<<>>), Str(<<"<", "b", ">", "H", "i">>),
                         HtmlText(<<"d">>), Num(7)},
        summary \in {Absent, Str(<<"s">>), HtmlText(<<"e">>)},
        dcCreator \in {Absent, Str(<<"A", "n", "n">>)},
        author \in {Absent, Obj([name |-> Str(<<"B", "o", "b">>)]), Str(<<"A", "l">>),
                    Obj([email |-> Str(<<"e">>)])} }

Alphabet == {"<", ">", "a"}

Pad(n) == [i \in 1..n |-> "x"]

\* content strings: markup characters before and after a run of text that ends short
\* of the cut, near it or past it
ContentStrings ==
    { pre \o Pad(n) \o suf :
        pre \in SeqsUpTo(Alphabet, MaxTagLen),
        suf \in SeqsUpTo(Alphabet, MaxTagLen),
        n \in {0, PadShort, PadLong} }

ContentNodes ==
    {Obj([description |-> Str(c)]) : c \in ContentStrings}
      \cup {Obj([summary |-> Str(c)]) : c \in SeqsUpTo(Alphabet, MaxTagLen)}

\* an element with text only, or none, is a string or a number
TextNodes == {Str(<<>>), Str(<<"t">>), Num(5)}

NodePool == ShapeNodes \cup ContentNodes \cup TextNodes

InitNorm ==
    /\ node \in NodePool
    /\ normalized = Idle
    /\ rssFeeds = <<>>
    /\ pc = "map"
    /\ feedIdx = 1
    /\ allItems = <<>>
    /\ caught = <<>>
    /\ aiCalls = 0
    /\ aiArg = <<>>
    /\ aiFailed = FALSE
    /\ processedMessage = Undef
    /\ tgCalls = 0
    /\ tgArg = Undef
    /\ tgFailed = FALSE
    /\ exitCode = 0

\* the map callback applied to the node
NormalizeNode ==
    /\ pc = "map"
    /\ normalized' = NormalizeItem(node)
    /\ pc' = "mapped"
    /\ UNCHANGED <<rssFeeds, feedIdx, allItems, caught, aiCalls, aiArg, aiFailed,
                   processedMessage, tgCalls, tgArg, tgFailed, exitCode, node>>

NextNorm == NormalizeNode

SpecNorm == InitNorm /\ [][NextNorm]_vars

-----------------------------------------------------------------------------
(* Properties.                                                             *)

\* fetchRSSFeeds has returned its array to main
FeedsReturned == pc \in {"resume", "ai", "telegram", "done"}

Fields == {"title", "link", "pubDate", "content", "contentSnippet", "creator"}

\* the bag of the elements of a sequence
BagOfSeq(q) ==
    [x \in {q[i] : i \in 1..Len(q)} |-> Cardinality({i \in 1..Len(q) : q[i] = x})]

RECURSIVE BagSum(_, _)
BagSum(f, n) == IF n = 0 THEN EmptyBag ELSE BagSum(f, n - 1) (+) f[n]

FetchAndParseOk(resp) ==
    /\ ~httpsRequest(resp).rejected
    /\ ~ParserParse(httpsRequest(resp).data).threw

\* the items of a response's document that the map callback turns into a record
NormalizedItemsOf(resp) ==
    LET items == ExtractItems(ParserParse(httpsRequest(resp).data).value)
        made == [i \in 1..Len(items) |-> NormalizeItem(items[i])]
    IN  BagOfSeq([i \in 1..Len(items) |-> made[i]])
          (-) SetToBag({m \in {made[i] : i \in 1..Len(items)} : m.threw})

\* C1: the items fetchRSSFeeds returns are, as a multiset, exactly the normalized
\* items of the sources whose fetch and parse succeeded; a source that failed
\* contributes none and takes none away.
C1_UnionOfSucceededSources ==
    FeedsReturned =>
      BagOfSeq([i \in 1..Len(allItems) |-> Returned(allItems[i])])
        = BagSum([i \in 1..Len(rssFeeds) |->
                    IF FetchAndParseOk(rssFeeds[i]) THEN NormalizedItemsOf(rssFeeds[i])
                    ELSE EmptyBag],
                 Len(rssFeeds))

\* ta >= tb on time values: false when either is NaN
TimeGeq(ta, tb) ==
    /\ ta.valid /\ tb.valid
    /\ \/ ta.day > tb.day
       \/ ta.day = tb.day /\ ta.ms >= tb.ms

\* C2: the returned sequence is sorted descending by publication timestamp: every
\* adjacent pair (a, b) has timestamp(a) >= timestamp(b), whatever pubDate values the
\* sources supplied.
C2_SortedDescending ==
    FeedsReturned =>
      \A i \in 1..(Len(allItems) - 1) :
        TimeGeq(NewDate(allItems[i].pubDate), NewDate(allItems[i + 1].pubDate))

\* C3: when aggregation yields no item, neither processWithAI nor sendToTelegram is
\* invoked and the run ends with exit status 0.
C3_EmptyShortCircuits ==
    (FeedsReturned /\ Len(allItems) = 0) =>
      /\ aiCalls = 0
      /\ tgCalls = 0
      /\ exitCode = 0
      /\ pc \in {"resume", "done"}

C3_Witness ==
    /\ pc = "done"
    /\ Len(allItems) = 0
    /\ \E i \in 1..Len(caught) : caught[i].threw
    /\ \E i \in 1..Len(caught) : ~caught[i].threw

\* C4: when the digest call or the delivery call fails, the process ends with exit
\* status 1, each collaborator has been called at most once, and sendToTelegram is
\* never invoked in a run where processWithAI failed.
C4_CollaboratorFailureIsFatal ==
    /\ aiCalls <= 1
    /\ tgCalls <= 1
    /\ aiFailed => (pc = "done" /\ exitCode = 1 /\ tgCalls = 0)
    /\ tgFailed => (pc = "done" /\ exitCode = 1)

C4_Witness ==
    \/ aiFailed /\ pc = "done" /\ aiCalls = 1
    \/ tgFailed /\ pc = "done" /\ tgCalls = 1

\* C5: every item the normaliser makes has all six fields, each a string, whatever
\* shape the raw node has.
C5_AllFieldsAreStrings ==
    (pc = "mapped" /\ ~normalized.threw) =>
      /\ DOMAIN normalized.value = Fields
      /\ \A k \in Fields : IsString(normalized.value[k])

\* C6: fields resolve in the order direct field, alternate location, default: a link
\* nested under an href attribute gives that href string as link, an author object
\* with a name gives that name as creator, and a node with no title in any known
\* location gives the title "No title".
C6_FieldResolutionOrder ==
    (pc = "mapped" /\ ~normalized.threw) =>
      /\ (Get(node, "link").t = "obj" /\ IsString(Get(Get(node, "link"), "@_href")))
           => normalized.value.link = Get(Get(node, "link"), "@_href")
      /\ (~Truthy(Get(node, "dc:creator")) /\ Get(node, "author").t = "obj"
            /\ Truthy(Get(Get(node, "author"), "name")))
           => normalized.value.creator = Get(Get(node, "author"), "name")
      /\ (Get(node, "title").t = "undef") => normalized.value.title = NoTitle

\* index i of s lies in a tag span: a "<" at or before i with no ">" between it
\* and i, and a ">" at or after i
InTagSpan(s, i) ==
    /\ \E j \in 1..i : s[j] = "<" /\ \A m \in j..(i - 1) : s[m] # ">"
    /\ \E k \in i..Len(s) : s[k] = ">"

\* s without the characters that lie in a tag span
WithoutTagSpans(s) ==
    LET keep == {i \in 1..Len(s) : ~InTagSpan(s, i)}
    IN  [r \in 1..Cardinality(keep) |->
           s[CHOOSE i \in keep : Cardinality({j \in keep : j <= i}) = r]]

\* C7: for any string content, contentSnippet has at most 120 characters, holds no
\* "<" with a ">" after it, and is the first 120 characters of the content with its
\* tag spans removed.
C7_SnippetStrippedThenCut ==
    (pc = "mapped" /\ ~normalized.threw) =>
      LET snippet == normalized.value.contentSnippet.s
          stripped == WithoutTagSpans(normalized.value.content.s)
      IN  /\ Len(snippet) <= 120
          /\ ~\E i, j \in 1..Len(snippet) : i < j /\ snippet[i] = "<" /\ snippet[j] = ">"
          /\ Len(snippet) = (IF Len(stripped) < 120 THEN Len(stripped) ELSE 120)
          /\ \A i \in 1..Len(snippet) : snippet[i] = stripped[i]

C7_Witness ==
    /\ pc = "mapped"
    /\ ~normalized.threw
    /\ Len(normalized.value.contentSnippet.s) = 120
    /\ Len(normalized.value.content.s) > 120
    /\ normalized.value.content.s[1] = "<"
    /\ normalized.value.contentSnippet.s[1] = "x"

\* the item nodes of an item-dialect document: a sequence, or one node given alone
ItemNodeCount(parsed) ==
    LET item == Get(Get(Get(parsed, "rss"), "channel"), "item")
    IN  IF item.t = "undef" THEN 0 ELSE IF IsArray(item) THEN Len(item.a) ELSE 1

IsItemDialect(parsed) == Get(Get(parsed, "rss"), "channel").t = "obj"

\* C8: a source whose fetch and parse succeed with an item-dialect document of N item
\* nodes contributes exactly N items; normalisation never throws and never drops the
\* source's items.
C8_EveryItemNodeContributes ==
    \A i \in 1..Len(caught) :
      (FetchAndParseOk(rssFeeds[i]) /\ IsItemDialect(rssFeeds[i].body.parsed)) =>
        /\ ~caught[i].threw
        /\ caught[i].count = ItemNodeCount(rssFeeds[i].body.parsed)

\* the items the loop collects from the feeds in the order given
RECURSIVE CollectItems(_)
CollectItems(feeds) ==
    IF feeds = <<>> THEN <<>>
    ELSE LET r == TryFeed(feeds[Len(feeds)])
         IN  CollectItems(SubSeq(feeds, 1, Len(feeds) - 1))
               \o (IF r.threw THEN <<>> ELSE r.value)

\* C9: the returned sequence is the same for every permutation of the configured
\* source list, also when items of different sources carry equal timestamps.
C9_SourceOrderIrrelevant ==
    FeedsReturned =>
      \A p \in Orderings(1..Len(rssFeeds)) :
        \A r \in SortOutcomes(CollectItems([i \in 1..Len(rssFeeds) |-> rssFeeds[p[i]]])) :
          r = allItems

\* C10: when aggregation yields n > 0 items, processWithAI is called with the first
\* min(n, 20) items in aggregated order, and sendToTelegram receives exactly what
\* processWithAI returned.
C10_TopTwentyThenDigest ==
    (pc \in {"ai", "telegram", "done"} /\ Len(allItems) > 0) =>
      /\ aiCalls = 1
      /\ Len(aiArg) = (IF Len(allItems) < 20 THEN Len(allItems) ELSE 20)
      /\ \A i \in 1..Len(aiArg) : aiArg[i] = allItems[i]
      /\ tgCalls = 1 => tgArg = processedMessage

C10_Witness ==
    /\ pc = "done"
    /\ Len(allItems) > 20
    /\ Len(aiArg) = 20
    /\ tgCalls = 1
    /\ IsString(tgArg)
    /\ exitCode = 0

====
